---- MODULE Spec2Model ----
(***************************************************************************)
(* Currency-Converter Telegram bot (src/3_bot_telegram.py): the dialogue   *)
(* controller (commands, next-step handlers, callback queries), the        *)
(* per-user session map user_data and the offline -> remote rate fallback. *)
(*                                                                         *)
(* Texts and callback data are sequences of one-character strings, so that *)
(* strip / upper / lower / split / replace / startswith / float are        *)
(* computed as Python computes them.  Numbers are fixed point: amounts in  *)
(* thousandths, rates in 1e-5, products in 1e-8.                           *)
(***************************************************************************)
EXTENDS Integers, Sequences, FiniteSets, TLC

\* ------------------------------------------------------------------ bounds
\* Longest list of pending next-step handlers the model lets a chat build up.
MaxHandlers == 2
\* The most days in a reply of the time-series API.
MaxSeries == 3
\* How many of the COMMON_PAIRS quick-select buttons are modelled.
NumQuickPairs == 1
\* The transport calls of one event that may be refused: the first MaxFailAt.
MaxFailAt == 1
\* The count of rejected amount texts saturates at MaxRejected.
MaxRejected == 2

\* ----------------------------------------------------------------- strings
LowerAlpha == <<"a","b","c","d","e","f","g","h","i","j","k","l","m",
                "n","o","p","q","r","s","t","u","v","w","x","y","z">>
UpperAlpha == <<"A","B","C","D","E","F","G","H","I","J","K","L","M",
                "N","O","P","Q","R","S","T","U","V","W","X","Y","Z">>
Digits == <<"0","1","2","3","4","5","6","7","8","9">>

IndexOf(c, alphabet) ==
    IF \E i \in DOMAIN alphabet : alphabet[i] = c
    THEN CHOOSE i \in DOMAIN alphabet : alphabet[i] = c
    ELSE 0

\* The characters of the modelled texts.
Chars ==
    {LowerAlpha[i] : i \in 1..26} \cup {UpperAlpha[i] : i \in 1..26}
        \cup {Digits[i] : i \in 1..10} \cup {" ", "/", "_", "$", "-", "+", "."}

\* c.upper(), c.lower() and int(c) per character (-1: not a digit).
char_upper ==
    [c \in Chars |-> IF IndexOf(c, LowerAlpha) # 0 THEN UpperAlpha[IndexOf(c, LowerAlpha)] ELSE c]
char_lower ==
    [c \in Chars |-> IF IndexOf(c, UpperAlpha) # 0 THEN LowerAlpha[IndexOf(c, UpperAlpha)] ELSE c]
char_digit == [c \in Chars |-> IndexOf(c, Digits) - 1]

\* str.upper(): letters are mapped, every other character is kept.
upper(s) == [i \in 1..Len(s) |-> char_upper[s[i]]]

\* str.lower()
lower(s) == [i \in 1..Len(s) |-> char_lower[s[i]]]

\* str.strip(): leading and trailing whitespace removed.
strip(s) ==
    LET keep == {i \in 1..Len(s) : s[i] # " "}
    IN  IF keep = {} THEN <<>>
        ELSE SubSeq(s, CHOOSE i \in keep : \A j \in keep : i <= j,
                       CHOOSE i \in keep : \A j \in keep : j <= i)

\* str.startswith(prefix)
startswith(s, prefix) ==
    Len(s) >= Len(prefix) /\ SubSeq(s, 1, Len(prefix)) = prefix

RECURSIVE split(_, _)
\* str.split(sep) for a one-character separator: the list of the pieces.
split(s, sep) ==
    IF \A i \in 1..Len(s) : s[i] # sep THEN <<s>>
    ELSE LET k == CHOOSE i \in 1..Len(s) :
                      s[i] = sep /\ \A j \in 1..(i - 1) : s[j] # sep
         IN  <<SubSeq(s, 1, k - 1)>> \o split(SubSeq(s, k + 1, Len(s)), sep)

RECURSIVE replace(_, _)
\* str.replace(old, ''): every occurrence of old removed, scanning left to right.
replace(s, old) ==
    IF Len(s) < Len(old) \/ s = <<>> THEN s
    ELSE IF startswith(s, old) THEN replace(SubSeq(s, Len(old) + 1, Len(s)), old)
    ELSE <<s[1]>> \o replace(SubSeq(s, 2, Len(s)), old)

\* ----------------------------------------------------------------- numbers
\* A float: a finite number (v, fixed point) or nan / inf / -inf.
Num(v) == [k |-> "num", v |-> v]
NaN == [k |-> "nan", v |-> 0]
Inf == [k |-> "inf", v |-> 0]
NegInf == [k |-> "-inf", v |-> 0]

RECURSIVE DigitsValue(_)
\* The number a string of decimal digits denotes.
DigitsValue(ds) ==
    IF ds = <<>> THEN 0
    ELSE 10 * DigitsValue(SubSeq(ds, 1, Len(ds) - 1)) + char_digit[ds[Len(ds)]]

AllDigits(ds) == \A i \in 1..Len(ds) : char_digit[ds[i]] >= 0

\* float(text): [ok |-> FALSE] is ValueError.  Grammar modelled: optional sign,
\* then nan | inf | infinity (any case) or digits with at most one '.', at
\* most three fractional digits (the amounts are kept in thousandths); the
\* exponent and underscore forms are outside the modelled texts.
float(text) ==
    LET t == strip(text)
        signed == t # <<>> /\ t[1] \in {"+", "-"}
        neg == t # <<>> /\ t[1] = "-"
        body == IF signed THEN Tail(t) ELSE t
        word == lower(body)
        parts == split(body, ".")
        int == parts[1]
        frac == IF Len(parts) = 2 THEN parts[2] ELSE <<>>
        frac3 == SubSeq(frac \o <<"0","0","0">>, 1, 3)
        mag == 1000 * DigitsValue(int) + DigitsValue(frac3)
    IN  IF word = <<"n","a","n">> THEN [ok |-> TRUE, val |-> NaN]
        ELSE IF word \in {<<"i","n","f">>, <<"i","n","f","i","n","i","t","y">>}
             THEN [ok |-> TRUE, val |-> IF neg THEN NegInf ELSE Inf]
        ELSE IF /\ Len(parts) \in {1, 2}
                /\ AllDigits(int) /\ AllDigits(frac)
                /\ Len(int) + Len(frac) > 0
                /\ Len(frac) <= 3
             THEN [ok |-> TRUE, val |-> Num(IF neg THEN 0 - mag ELSE mag)]
        ELSE [ok |-> FALSE, val |-> NaN]

\* amount <= 0 on floats (every comparison with nan is False).
le_zero(x) == (x.k = "num" /\ x.v <= 0) \/ x.k = "-inf"

\* x rounded to a multiple of unit, ties to even, in units of unit.
RoundDiv(x, unit) ==
    LET q == x \div unit
        r == x % unit
    IN  IF 2 * r > unit \/ (2 * r = unit /\ q % 2 = 1) THEN q + 1 ELSE q

\* amount * rate: thousandths times 1e-5 gives 1e-8.
mul(amount, rate) ==
    IF amount.k = "num" /\ rate.k = "num" THEN Num(amount.v * rate.v)
    ELSE IF amount.k = "nan" \/ rate.k = "nan" THEN NaN
    ELSE IF (amount.k = "num" /\ amount.v = 0) \/ (rate.k = "num" /\ rate.v = 0) THEN NaN
    ELSE IF (amount.k = "-inf" \/ (amount.k = "num" /\ amount.v < 0))
            # (rate.k = "-inf" \/ (rate.k = "num" /\ rate.v < 0))
         THEN NegInf ELSE Inf

\* f"{x:.2f}" of an amount held in thousandths: the hundredths shown.
fmt_amount(x) == IF x.k = "num" THEN Num(RoundDiv(x.v, 10)) ELSE x

\* f"{x:.2f}" of a product held in 1e-8: the hundredths shown.
fmt_result(x) == IF x.k = "num" THEN Num(RoundDiv(x.v, 1000000)) ELSE x

\* f"{x:.4f}" of a rate held in 1e-5: the ten-thousandths shown.
fmt_rate(x) == IF x.k = "num" THEN Num(RoundDiv(x.v, 10)) ELSE x


\* ------------------------------------------------------------- input texts
\* The texts a user may send (message.text) and the currency codes the
\* offline table knows.
AmountTexts == {"100", "20", "-5", "0", "nan"}
PairTexts == {"eur/Usd", "12$/eur", " us/eur"}
CommandTexts == {"/help", "/convert", "/graph"}
Texts == AmountTexts \cup PairTexts \cup CommandTexts

\* The characters of each text.
chars(t) ==
    CASE t = "100" -> <<"1","0","0">>
      [] t = "20" -> <<"2","0">>
      [] t = "-5" -> <<"-","5">>
      [] t = "0" -> <<"0">>
      [] t = "nan" -> <<"n","a","n">>
      [] t = "eur/Usd" -> <<"e","u","r","/","U","s","d">>
      [] t = "12$/eur" -> <<"1","2","$","/","e","u","r">>
      [] t = " us/eur" -> <<" ","u","s","/","e","u","r">>
      [] t = "/help" -> <<"/","h","e","l","p">>
      [] t = "/convert" -> <<"/","c","o","n","v","e","r","t">>
      [] t = "/graph" -> <<"/","g","r","a","p","h">>

\* A message: a text message, or one without text (a photo: message.text is None).
TextMessage(u, t) == [from_user |-> u, content_type |-> "text", text |-> t]
PhotoMessage(u) == [from_user |-> u, content_type |-> "photo", text |-> ""]

\* float(message.text.strip()), message.text.strip().upper() and
\* pair.split('/') of each text, computed once.
text_float == [t \in Texts |-> float(strip(chars(t)))]
text_pair == [t \in Texts |-> upper(strip(chars(t)))]
text_currencies == [t \in Texts |-> split(text_pair[t], "/")]

SupportedCurrencies ==
    { <<"U","S","D">>, <<"E","U","R">>, <<"G","B","P">>, <<"J","P","Y">> }
isalpha(s) == s # <<>> /\ \A i \in 1..Len(s) :
                  char_upper[s[i]] # s[i] \/ char_lower[s[i]] # s[i]

\* The rates the two sources answer with (1e-5): 0.12346 offline, 0.12514 remote.
OfflineRate == Num(12346)
RemoteRate == Num(12514)

\* What the collaborators do during one event: which transport call (if any)
\* raises, whether the offline table, the rate API and the time-series API answer.
Oracle(failAt, offline, remote, hist, results) ==
    [failAt |-> failAt, offline |-> offline, remote |-> remote, hist |-> hist,
     results |-> results]

\* ---------------------------------------------------------------- user_data
EmptyDict == [k \in {} |-> 0]
dict_get(d, k, default) == IF k \in DOMAIN d THEN d[k] ELSE default
dict_set(d, k, v) == [j \in DOMAIN d \cup {k} |-> IF j = k THEN v ELSE d[j]]

\* store as user_data[user_id].setdefault(key, v) would do it: a value already
\* there is kept.
store_setdefault(ud, user_id, key, v) ==
    IF key \in DOMAIN dict_get(ud, user_id, EmptyDict) THEN ud
    ELSE dict_set(ud, user_id, dict_set(dict_get(ud, user_id, EmptyDict), key, v))

\* store with every user's entry being one and the same dict object: the key is
\* set for all of them.
store_aliased(ud, user_id, key, v) ==
    [u \in DOMAIN ud \cup {user_id} |-> dict_set(dict_get(ud, u, EmptyDict), key, v)]

\* if user_id not in user_data: user_data[user_id] = {}; user_data[user_id][key] = v
store(ud, user_id, key, v) ==
    dict_set(ud, user_id, dict_set(dict_get(ud, user_id, EmptyDict), key, v))

\* ------------------------------------------------------------------ figures
\* A figure: the dates and rates plotted, in plotting order, and the 'Current'
\* annotation (labelled: whether there is one).
Figure(dates, rates) ==
    [dates |-> dates, rates |-> rates, labelled |-> dates # <<>> /\ rates # <<>>,
     current |-> IF dates # <<>> /\ rates # <<>> THEN fmt_rate(rates[Len(rates)])
                 ELSE Num(0)]
NoFigure == [dates |-> <<>>, rates |-> <<>>, labelled |-> FALSE, current |-> Num(0)]

\* The dates of the series (ISO, as the API gives them) and its rates (1e-5).
D_2023_12_31 == <<"2","0","2","3","-","1","2","-","3","1">>
D_2024_01_09 == <<"2","0","2","4","-","0","1","-","0","9">>
D_2024_01_10 == <<"2","0","2","4","-","0","1","-","1","0">>
D_2024_02_01 == <<"2","0","2","4","-","0","2","-","0","1">>
SeriesDates == {"2023-12-31", "2024-01-09", "2024-01-10", "2024-02-01"}
\* The characters of a date.
date_chars(d) ==
    CASE d = "2023-12-31" -> D_2023_12_31
      [] d = "2024-01-09" -> D_2024_01_09
      [] d = "2024-01-10" -> D_2024_01_10
      [] d = "2024-02-01" -> D_2024_02_01
SeriesRates == {Num(91234), Num(92468)}
Point(date, rate) == [date |-> date, rate |-> rate]

\* The series while the dialogue is followed: three days, not in order.
DefaultSeries ==
    << Point("2024-01-10", Num(92468)), Point("2023-12-31", Num(91234)),
       Point("2024-01-09", Num(91234)) >>

\* ord(c) of the characters of a date.
ord(c) == IF c = "-" THEN 45 ELSE 48 + char_digit[c]

\* a < b on str: at the first position where they differ a has the smaller
\* character, or a ends there.
str_lt(a, b) ==
    \E k \in 1..(Len(b)) :
        /\ k <= Len(a) + 1
        /\ \A j \in 1..(k - 1) : a[j] = b[j]
        /\ k = Len(a) + 1 \/ ord(a[k]) < ord(b[k])

RECURSIVE sorted(_)
\* sorted(keys) of distinct str keys.
sorted(keys) ==
    IF keys = <<>> THEN <<>>
    ELSE LET k == CHOOSE i \in DOMAIN keys :
                      \A j \in DOMAIN keys : ~str_lt(date_chars(keys[j]), date_chars(keys[i]))
         IN  <<keys[k]>> \o sorted(SubSeq(keys, 1, k - 1) \o SubSeq(keys, k + 1, Len(keys)))

\* data['results']: the dates of the reply, in its order, each with the rate of
\* the target currency.
dict_keys(data) == [i \in DOMAIN data |-> data[i].date]
dict_item(data, date) == data[CHOOSE i \in DOMAIN data : data[i].date = date].rate

\* plot with dates = list(data.keys()): the order of the reply.
plot_unsorted(data) ==
    Figure(dict_keys(data),
           [i \in DOMAIN data |-> dict_item(data, dict_keys(data)[i])])

\* Lines 91-110: dates = sorted(data.keys()), rates in that order, plotted,
\* the last point annotated.
plot(data) ==
    LET dates == sorted(dict_keys(data))
    IN  Figure(dates, [i \in DOMAIN dates |-> dict_item(data, dates[i])])

\* The figure of the series that the dialogue is followed with, drawn once.
default_figure == plot(DefaultSeries)
\* create_currency_graph's figure for a reply.
figure_of(data) == IF data = DefaultSeries THEN default_figure ELSE plot(data)

\* ------------------------------------------------- one handler's execution
\* exc: the exception in flight (type "none": none); msg is str(e), in pieces.
NoExc == [type |-> "none", msg |-> <<>>]
Exc(type, msg) == [type |-> type, msg |-> msg]

\* The running state of a handler: user_data (ud0: as the handler found it),
\* the handlers it registered, the transport calls that went through, the
\* remote rate calls made, the position in the event's transport calls, the
\* user_data keys it assigned, what the two rate sources and the chart builder
\* answered, the message of the remote failure, whether a transport call was
\* refused; args: the (base, target) each rate source and the chart builder
\* was called with.
Machine(ud, n) ==
    [ud |-> ud, ud0 |-> ud, reg |-> <<>>, out |-> <<>>, api |-> 0, n |-> n, set |-> <<>>,
     offline |-> "unused", remote |-> "unused", cause |-> <<>>, chart |-> "unused",
     args |-> <<>>, graph_buffer |-> NoFigure, refused |-> FALSE, exc |-> NoExc]

Msg(call, kind) ==
    [call |-> call, kind |-> kind, base |-> <<>>, target |-> <<>>,
     amount |-> Num(0), result |-> Num(0), rate |-> Num(0), err |-> <<>>, days |-> 0,
     markup |-> <<>>, figure |-> NoFigure]

\* fn(base, target) is called.
called(m, fn, base, target) ==
    [m EXCEPT !.args = Append(@, [fn |-> fn, base |-> base, target |-> target])]

\* user_data[user_id][key] = v inside a handler
assign(m, user_id, key, v) ==
    [m EXCEPT !.ud = store(@, user_id, key, v), !.set = Append(@, key)]

raise(m, type, msg) == IF m.exc # NoExc THEN m ELSE [m EXCEPT !.exc = Exc(type, msg)]

\* A bot.* call (send_message, send_photo, edit_message_text, delete_message,
\* answer_callback_query): it raises when the transport refuses it.
bot_call(m, msg, o) ==
    IF m.exc # NoExc THEN m
    ELSE IF m.n + 1 = o.failAt
         THEN [m EXCEPT !.n = @ + 1, !.refused = TRUE,
                        !.exc = Exc("ApiTelegramException", <<"ApiTelegramException">>)]
    ELSE [m EXCEPT !.n = @ + 1, !.out = Append(@, msg)]

\* bot.register_next_step_handler(message, callback)
register_next_step_handler(m, callback) ==
    IF m.exc # NoExc THEN m ELSE [m EXCEPT !.reg = Append(@, callback)]

\* currency_converter.convert(1, base, target): the offline table.
convert_offline(m, base, target, o) ==
    IF m.exc # NoExc THEN m
    ELSE IF o.offline = "ok" /\ base \in SupportedCurrencies /\ target \in SupportedCurrencies
         THEN [called(m, "convert", base, target) EXCEPT !.offline = "ok"]
    ELSE [called(m, "convert", base, target) EXCEPT !.offline = "fail",
                   !.exc = Exc("ValueError", <<"not a supported currency">>)]

\* get_exchange_rate(base, target): one HTTP GET; the rate, or an Exception
\* whose message embeds the cause.
get_exchange_rate(m, base, target, o) ==
    IF m.exc # NoExc THEN m
    ELSE IF o.remote = "ok" /\ isalpha(base) /\ isalpha(target)
         THEN [called(m, "get_exchange_rate", base, target) EXCEPT
                  !.api = @ + 1, !.remote = "ok"]
    ELSE IF o.remote = "noresult"
         THEN [called(m, "get_exchange_rate", base, target) EXCEPT
                  !.api = @ + 1, !.remote = "fail",
                        !.cause = <<"API Error: ", "Unsupported currency">>,
                        !.exc = Exc("Exception", <<"API Error: ", "Unsupported currency">>)]
    ELSE [called(m, "get_exchange_rate", base, target) EXCEPT
             !.api = @ + 1, !.remote = "fail",
                   !.cause = <<"Connection error: ", "HTTPError">>,
                   !.exc = Exc("Exception", <<"Connection error: ", "HTTPError">>)]

\* result_message with base and target in each other's place.
result_message_swapped(amount, base, target, rate) ==
    [Msg("send_message", "result") EXCEPT
        !.base = target, !.target = base, !.amount = fmt_amount(amount),
        !.result = fmt_result(mul(amount, rate)), !.rate = fmt_rate(rate)]

\* The "Conversion Result" message of lines 280-287, 294-301 and 388-395.
result_message(amount, base, target, rate) ==
    [Msg("send_message", "result") EXCEPT
        !.base = base, !.target = target, !.amount = fmt_amount(amount),
        !.result = fmt_result(mul(amount, rate)), !.rate = fmt_rate(rate)]


\* The exception in flight caught: what an except clause starts from.
caught(m) == [m EXCEPT !.exc = NoExc]

\* ---------------------------------------------------------------- keyboards
\* COMMON_PAIRS, the first NumQuickPairs of them.
ALL_COMMON_PAIRS ==
    << <<"U","S","D","/","E","U","R">>, <<"E","U","R","/","U","S","D">>,
       <<"U","S","D","/","G","B","P">>, <<"G","B","P","/","U","S","D">>,
       <<"G","B","P","/","E","U","R">>, <<"E","U","R","/","G","B","P">>,
       <<"U","S","D","/","J","P","Y">>, <<"E","U","R","/","J","P","Y">> >>
COMMON_PAIRS == SubSeq(ALL_COMMON_PAIRS, 1, NumQuickPairs)

S_convert == <<"c","o","n","v","e","r","t","_">>
S_graph == <<"g","r","a","p","h","_">>
S_timeframe == <<"t","i","m","e","f","r","a","m","e","_">>
S_custom_pair == <<"c","u","s","t","o","m","_","p","a","i","r">>
S_custom_graph_pair ==
    <<"c","u","s","t","o","m","_","g","r","a","p","h","_","p","a","i","r">>
S_show_graph_options ==
    <<"s","h","o","w","_","g","r","a","p","h","_","o","p","t","i","o","n","s">>

\* The callback data of the buttons of each keyboard.
currency_keyboard_buttons ==
    {S_convert \o lower(COMMON_PAIRS[i]) : i \in DOMAIN COMMON_PAIRS}
        \cup {S_custom_pair, S_show_graph_options}

graph_keyboard_buttons ==
    {S_graph \o lower(COMMON_PAIRS[i]) : i \in DOMAIN COMMON_PAIRS}
        \cup {S_custom_graph_pair}

TimeframeOptions == { <<"7">>, <<"1","4">>, <<"3","0">>, <<"9","0">> }
timeframe_keyboard_buttons(pair) ==
    {S_timeframe \o pair \o <<"_">> \o d : d \in TimeframeOptions}

\* A reply_markup: which keyboard, and the pair of a timeframe keyboard.
create_currency_keyboard == <<"currency">>
create_graph_keyboard == <<"graph">>
create_timeframe_keyboard(pair) == <<"timeframe">> \o pair

\* The callback data a keyboard's buttons carry.
callback_data(markup) ==
    IF markup = create_currency_keyboard THEN currency_keyboard_buttons
    ELSE IF markup = create_graph_keyboard THEN graph_keyboard_buttons
    ELSE timeframe_keyboard_buttons(Tail(markup))

\* ------------------------------------------------------------ step handlers
NoneTypeError == Exc("AttributeError", <<"'NoneType' object has no attribute 'strip'">>)

\* The body of process_amount once float(message.text.strip()) is f: a positive
\* amount is stored and the pair keyboard sent (lines 240-253); ValueError (not
\* a float, or <= 0) warns and registers process_amount again (254-259).
amount_entered(m0, user_id, f, o) ==
    IF ~f.ok \/ le_zero(f.val)
    THEN register_next_step_handler(
             bot_call(m0, Msg("send_message", "invalid_amount"), o), "process_amount")
    ELSE bot_call(assign(m0, user_id, "amount", f.val),
                  [Msg("send_message", "currency_keyboard") EXCEPT
                      !.amount = fmt_amount(f.val), !.markup = create_currency_keyboard],
                  o)

\* process_amount(message)
process_amount(m0, message, o) ==
    IF message.content_type # "text" THEN raise(m0, NoneTypeError.type, NoneTypeError.msg)
    ELSE amount_entered(m0, message.from_user, text_float[message.text], o)

\* len(currencies) != 2 or not all(len(c) == 3 for c in currencies)
bad_format(currencies) ==
    Len(currencies) # 2 \/ \E i \in 1..Len(currencies) : Len(currencies[i]) # 3

\* Lines 277-287: the offline rate, then the result sent, inside one try.
offline_conversion(m0, amount, base, target, o) ==
    bot_call(convert_offline(m0, base, target, o),
             result_message(amount, base, target, OfflineRate), o)

\* conversion_failed raising a new exception without str(api_e).
conversion_failed_no_cause(second) ==
    IF second.exc = NoExc THEN second
    ELSE [second EXCEPT !.exc = Exc("Exception", <<"Currency conversion failed">>)]

\* Lines 302-303: an exception of the remote attempt is raised again, wrapped.
conversion_failed(second) ==
    IF second.exc = NoExc THEN second
    ELSE [second EXCEPT
             !.exc = Exc("Exception", <<"Currency conversion failed: ">> \o @.msg)]

\* Lines 288-303: any exception of the offline attempt (first) leads to the
\* remote rate and the result sent again.
online_conversion(first, amount, base, target, o) ==
    IF first.exc = NoExc THEN first
    ELSE conversion_failed(
             bot_call(get_exchange_rate(caught(first), base, target, o),
                      result_message(amount, base, target, RemoteRate), o))

\* The except clauses shared by process_custom_pair (305-321) and
\* process_custom_graph_pair (349-365): ValueError re-prompts the format, any
\* other exception shows it and asks for a pair; both register callback again.
pair_except(tried, callback, o) ==
    IF tried.exc = NoExc THEN tried
    ELSE IF tried.exc.type = "ValueError"
    THEN register_next_step_handler(
             bot_call(caught(tried), Msg("send_message", "invalid_format"), o), callback)
    ELSE register_next_step_handler(
             bot_call(bot_call(caught(tried),
                               [Msg("send_message", "error_pair") EXCEPT
                                   !.err = tried.exc.msg], o),
                      Msg("send_message", "ask_pair"), o),
             callback)

\* The amount of a user's session: user_data.get(user_id, {}).get('amount', 0)
session_amount(ud, user_id) ==
    dict_get(dict_get(ud, user_id, EmptyDict), "amount", Num(0))

\* The try block of process_custom_pair, lines 265-303.
custom_pair_try(m0, message, currencies, o) ==
    IF bad_format(currencies) THEN raise(m0, "ValueError", <<"Invalid format">>)
    ELSE online_conversion(
             offline_conversion(m0, session_amount(m0.ud, message.from_user),
                                currencies[1], currencies[2], o),
             session_amount(m0.ud, message.from_user), currencies[1], currencies[2], o)

\* process_custom_pair(message)
process_custom_pair(m0, message, o) ==
    IF message.content_type # "text"
    THEN pair_except(raise(m0, NoneTypeError.type, NoneTypeError.msg),
                     "process_custom_pair", o)
    ELSE pair_except(custom_pair_try(m0, message, text_currencies[message.text], o),
                     "process_custom_pair", o)

\* The try block of process_custom_graph_pair, lines 326-347.
custom_graph_pair_try(m0, message, pair, currencies, o) ==
    IF bad_format(currencies) THEN raise(m0, "ValueError", <<"Invalid format">>)
    ELSE bot_call(assign(m0, message.from_user, "graph_pair", pair),
                  [Msg("send_message", "timeframe_keyboard") EXCEPT
                      !.base = currencies[1], !.target = currencies[2],
                      !.markup = create_timeframe_keyboard(lower(pair))],
                  o)

\* process_custom_graph_pair(message)
process_custom_graph_pair(m0, message, o) ==
    IF message.content_type # "text"
    THEN pair_except(raise(m0, NoneTypeError.type, NoneTypeError.msg),
                     "process_custom_graph_pair", o)
    ELSE pair_except(custom_graph_pair_try(m0, message, text_pair[message.text],
                                           text_currencies[message.text], o),
                     "process_custom_graph_pair", o)

\* ------------------------------------------------------------ chart builder
\* create_currency_graph(base, target, days): the image, or
\* Exception("Failed to create graph: ...") when the time-series fetch fails.
create_currency_graph(m, base, target, days, o) ==
    IF m.exc # NoExc THEN m
    ELSE IF o.hist = "ok" /\ isalpha(base) /\ isalpha(target)
         THEN [called(m, "create_currency_graph", base, target) EXCEPT
                  !.chart = "ok", !.graph_buffer = figure_of(o.results)]
    ELSE [called(m, "create_currency_graph", base, target) EXCEPT !.chart = "fail",
                   !.exc = Exc("Exception",
                                <<"Failed to create graph: ", "Connection error: ", "HTTPError">>)]

\* ------------------------------------------------------- callback queries
\* Lines 380-395: the offline rate or, on any exception, the remote one; then
\* the result is sent.
convert_rate(offline, amount, base, target, o) ==
    IF offline.exc = NoExc
    THEN bot_call(offline, result_message(amount, base, target, OfflineRate), o)
    ELSE bot_call(get_exchange_rate(caught(offline), base, target, o),
                  result_message(amount, base, target, RemoteRate), o)

\* Lines 376-395, parts being pair.upper().split('/').
convert_callback(m0, user_id, parts, o) ==
    IF Len(parts) # 2 THEN raise(m0, "ValueError", <<"not enough values to unpack">>)
    ELSE convert_rate(convert_offline(m0, parts[1], parts[2], o),
                      session_amount(m0.ud, user_id), parts[1], parts[2], o)

\* graph_callback storing the pair as the callback data spells it.
graph_callback_as_pressed(m0, user_id, pair, o) ==
    bot_call(assign(m0, user_id, "graph_pair", pair),
             [Msg("send_message", "timeframe_keyboard") EXCEPT
                 !.base = upper(pair), !.markup = create_timeframe_keyboard(pair)],
             o)

\* Lines 407-418.
graph_callback(m0, user_id, pair, o) ==
    bot_call(assign(m0, user_id, "graph_pair", upper(pair)),
             [Msg("send_message", "timeframe_keyboard") EXCEPT
                 !.base = upper(pair), !.markup = create_timeframe_keyboard(pair)],
             o)

\* Lines 446-465: the chart sent and the notice deleted, or the notice edited.
graph_sent(sent, o) ==
    IF sent.exc = NoExc THEN sent
    ELSE bot_call(caught(sent),
                  [Msg("edit_message_text", "graph_error") EXCEPT !.err = sent.exc.msg], o)

\* Lines 450-455: bot.send_photo of the graph buffer.
send_graph(built, base, target, days, o) ==
    bot_call(built,
             [Msg("send_photo", "graph") EXCEPT
                 !.base = base, !.target = target, !.days = days,
                 !.figure = built.graph_buffer],
             o)

\* Lines 440-465, after the "generating" notice.
graph_notice(notice, base, target, days, o) ==
    IF notice.exc # NoExc THEN notice
    ELSE graph_sent(
             bot_call(send_graph(create_currency_graph(notice, base, target, days, o),
                                 base, target, days, o),
                      Msg("delete_message", "generating"), o),
             o)

\* Lines 437-465, parts being pair.upper().split('/').
timeframe_graph(m0, parts, days, o) ==
    IF Len(parts) # 2 THEN raise(m0, "ValueError", <<"not enough values to unpack">>)
    ELSE graph_notice(bot_call(m0, [Msg("send_message", "generating") EXCEPT
                                       !.base = parts[1], !.target = parts[2],
                                       !.days = days], o),
                      parts[1], parts[2], days, o)

\* timeframe_callback without lines 434-435: always the pair of call.data.
timeframe_callback_as_pressed(m0, session, fields, o) ==
    IF Len(fields) # 3 THEN raise(m0, "ValueError", <<"too many values to unpack">>)
    ELSE IF fields[3] = <<>> \/ ~AllDigits(fields[3])
    THEN raise(m0, "ValueError", <<"invalid literal for int()">>)
    ELSE timeframe_graph(m0, split(upper(fields[2]), "/"), DigitsValue(fields[3]), o)

\* Lines 431-437, fields being call.data.split('_').
timeframe_callback(m0, session, fields, o) ==
    IF Len(fields) # 3 THEN raise(m0, "ValueError", <<"too many values to unpack">>)
    ELSE IF fields[3] = <<>> \/ ~AllDigits(fields[3])
    THEN raise(m0, "ValueError", <<"invalid literal for int()">>)
    ELSE timeframe_graph(m0,
                         split(upper(IF "graph_pair" \in DOMAIN session
                                     THEN session["graph_pair"] ELSE fields[2]), "/"),
                         DigitsValue(fields[3]), o)

\* unknown_callback answering the press with the "I don't understand" reply.
unknown_callback_replies(m0, o) == bot_call(m0, Msg("send_message", "unknown_command"), o)

\* call.data matched by no branch of the if / elif chain (there is no else):
\* nothing is done before the acknowledgement of line 476.
unknown_callback(m0, o) == m0

\* The branch of handle_callback_query for call.data, lines 375-473.
callback_branch(m0, user_id, data, o) ==
    IF startswith(data, S_convert)
    THEN convert_callback(m0, user_id, split(upper(replace(data, S_convert)), "/"), o)
    ELSE IF data = S_custom_pair
    THEN register_next_step_handler(
             bot_call(m0, Msg("send_message", "ask_pair"), o), "process_custom_pair")
    ELSE IF startswith(data, S_graph)
    THEN graph_callback(m0, user_id, replace(data, S_graph), o)
    ELSE IF data = S_custom_graph_pair
    THEN register_next_step_handler(
             bot_call(m0, Msg("send_message", "ask_graph_pair"), o),
             "process_custom_graph_pair")
    ELSE IF startswith(data, S_timeframe)
    THEN timeframe_callback(m0, dict_get(m0.ud, user_id, EmptyDict), split(data, "_"), o)
    ELSE IF data = S_show_graph_options
    THEN bot_call(m0, [Msg("send_message", "graph_keyboard") EXCEPT
                          !.markup = create_graph_keyboard], o)
    ELSE unknown_callback(m0, o)

\* Lines 478-484: the except clause of handle_callback_query.
callback_except(tried, o) ==
    IF tried.exc = NoExc THEN tried
    ELSE bot_call(bot_call(caught(tried), Msg("answer_callback_query", "answer"), o),
                  [Msg("send_message", "callback_error") EXCEPT !.err = tried.exc.msg],
                  o)

\* handle_callback_query(call): the branch and the acknowledgement (476)
\* inside the try, then the except clause.
handle_callback_query(m0, call, o) ==
    callback_except(bot_call(callback_branch(m0, call.from_user, call.data, o),
                             Msg("answer_callback_query", "answer"), o),
                    o)

\* ---------------------------------------------------------------- commands
\* /start, /help, /info: one message each.
start_command(m0, message, o) == bot_call(m0, Msg("send_message", "welcome"), o)
help_command(m0, message, o) == bot_call(m0, Msg("send_message", "help"), o)
info_command(m0, message, o) == bot_call(m0, Msg("send_message", "info"), o)

\* /convert: asks for the amount and registers process_amount.
convert_command(m0, message, o) ==
    register_next_step_handler(
        bot_call(m0, Msg("send_message", "ask_amount"), o), "process_amount")

\* /graph: the graph pair keyboard.
graph_command(m0, message, o) ==
    bot_call(m0, [Msg("send_message", "graph_keyboard") EXCEPT
                     !.markup = create_graph_keyboard], o)

\* Any other text.
handle_all_messages(m0, message, o) ==
    bot_call(m0, Msg("send_message", "unknown_command"), o)

\* ------------------------------------------------------------------- state
Users == {1, 2}

VARIABLES
    user_data,   \* user_data: user id -> {'amount': float, 'graph_pair': str}
    handlers,    \* the chat's pending next-step handlers, in registration order
    keyboards,   \* the inline keyboards sent to the chat so far
    members,     \* who writes in the chat: one user (private chat) or a group
    flow,        \* per user: "none", "convert" (/convert handled) or "amount"
                 \* (a valid amount entered since the last /convert)
    rejected,    \* per user: the amount texts in a row that process_amount
                 \* turned down, up to the last event (saturating at MaxRejected)
    environ,     \* os.environ after load_dotenv: the secrets that are set
    process,     \* where the process is: "starting", "polling", "exit 1"
    series,      \* the time series the rate API holds: its dates, in the order
                 \* of its replies, each with a rate
    ev           \* the update being handled and what its handlers did
                 \* (type "none": the polling loop waits for the next update)

vars == <<user_data, handlers, keyboards, members, flow, rejected, environ, process,
          series, ev>>

\* The names of the two secrets in the environment (lines 26-27).
Secrets == {"API_KEY", "BOT_TOKEN"}

NoEvent ==
    [type |-> "none", from_user |-> 0, content_type |-> "text",
     text |-> "", data |-> <<>>, runs |-> <<>>]

Init ==
    /\ user_data = EmptyDict
    /\ handlers = <<>>
    /\ keyboards = {}
    /\ members = {1}
    /\ flow = [u \in Users |-> "none"]
    /\ rejected = [u \in Users |-> 0]
    /\ environ = Secrets
    /\ process = "polling"
    /\ series = DefaultSeries
    /\ ev = NoEvent

\* What is kept of a finished handler run.
Run(handler, m) ==
    [handler |-> handler, reg |-> m.reg, out |-> m.out, api |-> m.api, set |-> m.set,
     kept |-> (m.ud = m.ud0), offline |-> m.offline, remote |-> m.remote,
     cause |-> m.cause, chart |-> m.chart, args |-> m.args, refused |-> m.refused,
     exc |-> m.exc]

\* The handler named h called with an event (a message, a callback query).
handler(h, m0, event, o) ==
    CASE h = "process_amount" -> process_amount(m0, event, o)
      [] h = "process_custom_pair" -> process_custom_pair(m0, event, o)
      [] h = "process_custom_graph_pair" -> process_custom_graph_pair(m0, event, o)
      [] h = "handle_callback_query" -> handle_callback_query(m0, event, o)
      [] h = "start_command" -> start_command(m0, event, o)
      [] h = "help_command" -> help_command(m0, event, o)
      [] h = "info_command" -> info_command(m0, event, o)
      [] h = "convert_command" -> convert_command(m0, event, o)
      [] h = "graph_command" -> graph_command(m0, event, o)
      [] h = "handle_all_messages" -> handle_all_messages(m0, event, o)

\* The runs of an event so far, user_data after them and the transport calls made.
Ran(runs, ud, n) == [runs |-> runs, ud |-> ud, n |-> n]
ran(done, h, m) == Ran(Append(done.runs, Run(h, m)), m.ud, m.n)

\* One more handler of the event called.
run_step(h, done, event, o) ==
    ran(done, h, handler(h, Machine(done.ud, done.n), event, o))

RECURSIVE run_steps(_, _, _, _)
\* _notify_next_handlers: every handler pending for the chat is called with the
\* message, in registration order; an exception of one does not stop the next.
run_steps(hs, done, message, o) ==
    IF hs = <<>> THEN done
    ELSE run_steps(Tail(hs), run_step(hs[1], done, message, o), message, o)

RECURSIVE Registered(_)
Registered(runs) ==
    IF runs = <<>> THEN <<>> ELSE runs[1].reg \o Registered(Tail(runs))

Markups(runs) ==
    UNION {{runs[i].out[j].markup : j \in DOMAIN runs[i].out} : i \in DOMAIN runs}
        \ {<<>>}

\* util.extract_command(text): the word after the leading '/', or <<>>.
extract_command(text) ==
    IF text # <<>> /\ text[1] = "/" THEN Tail(split(text, " ")[1]) ELSE <<>>
text_command == [t \in Texts |-> extract_command(chars(t))]

RECURSIVE flow_after(_, _)
\* The flow a user is in after the runs of an event of theirs.
flow_after(f, runs) ==
    IF runs = <<>> THEN f
    ELSE flow_after(IF runs[1].handler = "convert_command" THEN "convert"
                    ELSE IF \E i \in DOMAIN runs[1].set : runs[1].set[i] = "amount"
                         THEN "amount"
                    ELSE f,
                    Tail(runs))

\* The amount texts in a row that process_amount turned down, after the runs of
\* an event: one more when it registered itself again, the same when it took
\* the amount, none after an event that was not an amount text.
rejected_after(k, runs) ==
    IF \A i \in DOMAIN runs : runs[i].handler # "process_amount" THEN 0
    ELSE IF \E i \in DOMAIN runs : /\ runs[i].handler = "process_amount"
                                   /\ runs[i].reg = <<"process_amount">>
                                   /\ k < MaxRejected
         THEN k + 1
    ELSE k

\* The texts followed in a chat: all of them in a private chat, GroupTexts in a
\* group, where the transport refuses no call and the remote APIs answer.
GroupTexts == {"/convert", "100", "eur/Usd"}
ChatTexts == IF members = Users THEN GroupTexts ELSE Texts
ChatFailAt == IF members = Users THEN 0 ELSE MaxFailAt

\* The oracles of an event that may consult the rate sources / the chart API.
Oracles(rates, chart) ==
    { o \in { Oracle(f, a, b, c, series) :
                f \in 0..ChatFailAt,
                a \in IF rates THEN {"ok", "fail"} ELSE {"ok"},
                b \in IF rates /\ members # Users
                      THEN {"ok", "request", "noresult"} ELSE {"ok"},
                c \in IF chart /\ members # Users THEN {"ok", "fail"} ELSE {"ok"} } :
        \* the remote answer is told apart only where the remote API is asked
        o.failAt = 0 /\ o.offline = "ok" => o.remote = "ok" }

Messages(u) ==
    {TextMessage(u, t) : t \in ChatTexts}
        \cup (IF members = Users THEN {} ELSE {PhotoMessage(u)})

\* The effect of an event of user u whose handlers ran as done.runs, leaving
\* done.ud; pending are the handlers that were not taken off the list.
Effect(type, u, content_type, text, data, done, pending) ==
    /\ Len(pending) + Len(Registered(done.runs)) <= MaxHandlers
    /\ user_data' = done.ud
    /\ handlers' = pending \o Registered(done.runs)
    /\ keyboards' = keyboards \cup Markups(done.runs)
    /\ flow' = [flow EXCEPT ![u] = flow_after(@, done.runs)]
    /\ rejected' = [rejected EXCEPT ![u] = rejected_after(@, done.runs)]
    /\ ev' = [type |-> type, from_user |-> u, content_type |-> content_type,
              text |-> text, data |-> data, runs |-> done.runs]
    /\ UNCHANGED <<members, environ, process, series>>

\* A message while next-step handlers are pending for the chat: they are taken
\* off the list and all called; the message reaches no other handler.
StepMessage ==
    /\ ev = NoEvent
    /\ handlers # <<>>
    /\ \E u \in members :
       \E message \in Messages(u) :
       \E o \in Oracles(\E i \in DOMAIN handlers : handlers[i] = "process_custom_pair",
                        FALSE) :
          Effect("message", u, message.content_type, message.text, <<>>,
                 run_steps(handlers, Ran(<<>>, user_data, 0), message, o), <<>>)

\* The message handler whose filter matches a text with command c: the five
\* commands (lines 126-204), then the catch-all (487).
message_handler(c) ==
    IF c = <<"s","t","a","r","t">> THEN "start_command"
    ELSE IF c = <<"h","e","l","p">> THEN "help_command"
    ELSE IF c = <<"i","n","f","o">> THEN "info_command"
    ELSE IF c = <<"c","o","n","v","e","r","t">> THEN "convert_command"
    ELSE IF c = <<"g","r","a","p","h">> THEN "graph_command"
    ELSE "handle_all_messages"

\* A text message with no next-step handler pending.
CommandMessage ==
    /\ ev = NoEvent
    /\ handlers = <<>>
    /\ \E u \in members :
       \E t \in ChatTexts :
       \E o \in Oracles(FALSE, FALSE) :
          Effect("message", u, "text", t, <<>>,
                 run_step(message_handler(text_command[t]), Ran(<<>>, user_data, 0),
                          TextMessage(u, t), o),
                 handlers)

\* Callback data of no keyboard of this program (a button of a message that an
\* earlier version of the bot left in the chat).
StaleCallbackData == { <<"c","a","n","c","e","l">> }

\* A press of a button that was sent to the chat.
CallbackQuery ==
    /\ ev = NoEvent
    /\ \E u \in members :
       \E data \in UNION {callback_data(k) : k \in keyboards} \cup StaleCallbackData :
       \E o \in Oracles(startswith(data, S_convert), startswith(data, S_timeframe)) :
          Effect("callback", u, "text", "", data,
                 run_step("handle_callback_query", Ran(<<>>, user_data, 0),
                          [from_user |-> u, data |-> data], o),
                 handlers)

\* bot.infinity_polling (line 499): the update is done with, the loop polls for
\* the next one.
Polling ==
    /\ ev # NoEvent
    /\ ev' = NoEvent
    /\ UNCHANGED <<user_data, handlers, keyboards, members, flow, rejected, environ, process,
                   series>>

Next == StepMessage \/ CommandMessage \/ CallbackQuery \/ Polling

Spec == Init /\ [][Next]_vars

\* The bot in a group chat: both users write in the chat and press its buttons.
InitGroup ==
    /\ user_data = EmptyDict
    /\ handlers = <<>>
    /\ keyboards = {}
    /\ members = Users
    /\ flow = [u \in Users |-> "none"]
    /\ rejected = [u \in Users |-> 0]
    /\ environ = Secrets
    /\ process = "polling"
    /\ series = DefaultSeries
    /\ ev = NoEvent

SpecGroup == InitGroup /\ [][Next]_vars

\* -------------------------------------------------------- the process start
\* The process from its start, with any of the secrets set or not.
InitStart ==
    /\ user_data = EmptyDict
    /\ handlers = <<>>
    /\ keyboards = {}
    /\ members = {1}
    /\ flow = [u \in Users |-> "none"]
    /\ rejected = [u \in Users |-> 0]
    /\ environ \in SUBSET Secrets
    /\ process = "starting"
    /\ series = DefaultSeries
    /\ ev = NoEvent

\* Lines 23-36 and 496-499: os.getenv of the two secrets (None when unset),
\* telebot.TeleBot(BOT_TOKEN), then bot.infinity_polling. Nothing looks at
\* API_KEY. What TeleBot does with a token of None is the library's: it raises
\* (the module dies with a traceback, status 1) or it constructs the bot, whose
\* polling loop then gets no update.
Start ==
    /\ process = "starting"
    /\ process' \in IF "BOT_TOKEN" \in environ THEN {"polling"}
                    ELSE {"polling", "exit 1"}
    /\ UNCHANGED <<user_data, handlers, keyboards, members, flow, rejected, environ,
                   series, ev>>

\* The polling loop hands over the updates that Telegram gives to the token.
Serve ==
    /\ process = "polling"
    /\ "BOT_TOKEN" \in environ
    /\ Next

NextStart == Start \/ Serve

SpecStart == InitStart /\ [][NextStart]_vars

\* ----------------------------------------------------------- the chart flow
\* Every reply the time-series API can give: up to MaxSeries days, no date
\* twice (the reply is a JSON object keyed by date), in any order.
AllSeries ==
    { r \in UNION { [1..n -> [date : SeriesDates, rate : SeriesRates]] : n \in 0..MaxSeries } :
        \A i, j \in DOMAIN r : i # j => r[i].date # r[j].date }

InitChart ==
    /\ user_data = EmptyDict
    /\ handlers = <<>>
    /\ keyboards = {}
    /\ members = {1}
    /\ flow = [u \in Users |-> "none"]
    /\ rejected = [u \in Users |-> 0]
    /\ environ = Secrets
    /\ process = "polling"
    /\ series \in AllSeries
    /\ ev = NoEvent

\* The /graph command (line 166).
GraphCommand ==
    /\ ev = NoEvent
    /\ handlers = <<>>
    /\ \E u \in members :
       \E o \in Oracles(FALSE, FALSE) :
          Effect("message", u, "text", "/graph", <<>>,
                 run_step("graph_command", Ran(<<>>, user_data, 0),
                          TextMessage(u, "/graph"), o),
                 handlers)

\* A press of a pair button or of a time period button of the chart keyboards.
GraphButton ==
    /\ ev = NoEvent
    /\ \E u \in members :
       \E data \in UNION {callback_data(k) : k \in keyboards} :
       \E o \in Oracles(FALSE, TRUE) :
          /\ startswith(data, S_graph) \/ startswith(data, S_timeframe)
          /\ Effect("callback", u, "text", "", data,
                    run_step("handle_callback_query", Ran(<<>>, user_data, 0),
                             [from_user |-> u, data |-> data], o),
                    handlers)

NextChart == GraphCommand \/ GraphButton \/ Polling

SpecChart == InitChart /\ [][NextChart]_vars

\* ------------------------------------------------------------------- claims
\* What the claims speak of, read off the last event (ev) and the state it
\* left.  The numbers the claims expect are written down here, apart from the
\* operators that model the code.

Kinds(run) == [k \in DOMAIN run.out |-> run.out[k].kind]
Sent(run, kind) == \E k \in DOMAIN run.out : run.out[k].kind = kind
Pending(h) == \E j \in DOMAIN handlers : handlers[j] = h
TextEvent == ev.type = "message" /\ ev.content_type = "text"

\* The decimal numerals among the texts and the number each denotes, in
\* thousandths; every other text is not a number.
Decimal == ("100" :> 100000) @@ ("20" :> 20000) @@ ("-5" :> (0 - 5000)) @@ ("0" :> 0)
PositiveDecimal(t) == t \in DOMAIN Decimal /\ Decimal[t] > 0

\* x in units of unit, to the nearest (no modelled number is half-way).
Nearest(x, unit) == (x + unit \div 2) \div unit

\* The rates of the two sources as a reply shows them (4 decimals).
OfflineShown == Num(1235)
RemoteShown == Num(1251)

IsLetter(c) == \E i \in 1..26 : c = LowerAlpha[i] \/ c = UpperAlpha[i]
\* ^[A-Za-z]{3}/[A-Za-z]{3}$
MatchesPairRegex(s) ==
    Len(s) = 7 /\ s[4] = "/" /\ \A i \in {1, 2, 3, 5, 6, 7} : IsLetter(s[i])

\* err holds the pieces of cause, in a row.
Embeds(err, cause) ==
    \E k \in 1..(Len(err) - Len(cause) + 1) : SubSeq(err, k, k + Len(cause) - 1) = cause

\* Every stored amount is a number: the sessions that hold no nan.  C3, C5,
\* C6, C7, C8 and C10 are stated for these, apart from what C1 is about.
AmountsAreNumbers ==
    \A u \in DOMAIN user_data : session_amount(user_data, u).k = "num"

\* C1: an amount text that is not a number, or a number <= 0, makes
\* process_amount send the invalid-amount warning and nothing else, leave
\* user_data as it was and stay registered for the user's next text (every
\* transport call of the run having gone through).
C1_InvalidAmountRejected ==
    TextEvent =>
        \A i \in DOMAIN ev.runs :
            ( /\ ev.runs[i].handler = "process_amount"
              /\ ~PositiveDecimal(ev.text)
              /\ ~ev.runs[i].refused )
            => /\ Kinds(ev.runs[i]) = <<"invalid_amount">>
               /\ ev.runs[i].kept /\ ev.runs[i].set = <<>>
               /\ ev.runs[i].reg = <<"process_amount">>
               /\ Pending("process_amount")

\* C2: an amount text that is a positive number a makes process_amount store
\* exactly a as the user's amount, whatever was stored before, and send the
\* pair keyboard; process_amount is no longer pending afterwards.
C2_ValidAmountStored ==
    TextEvent =>
        \A i \in DOMAIN ev.runs :
            ( /\ ev.runs[i].handler = "process_amount"
              /\ PositiveDecimal(ev.text)
              /\ ~ev.runs[i].refused )
            => /\ session_amount(user_data, ev.from_user) = Num(Decimal[ev.text])
               /\ ev.runs[i].set = <<"amount">>
               /\ Len(ev.runs[i].out) = 1
               /\ ev.runs[i].out[1].kind = "currency_keyboard"
               /\ ev.runs[i].out[1].markup = create_currency_keyboard
               /\ ev.runs[i].out[1].amount = Num(Nearest(Decimal[ev.text], 10))
               /\ ev.runs[i].reg = <<>>
               /\ ~Pending("process_amount")

\* /convert, "-5" (turned down), then "20": 20 is the stored amount.
C2_Witness ==
    /\ TextEvent /\ ev.text = "20"
    /\ rejected[ev.from_user] >= 1
    /\ \E i \in DOMAIN ev.runs :
          ev.runs[i].handler = "process_amount" /\ ~ev.runs[i].refused
    /\ session_amount(user_data, ev.from_user) = Num(20000)
    /\ ~Pending("process_amount")

\* C3: a conversion whose offline lookup returned a rate shows that rate and
\* makes no call of the remote rate API, whatever else happens in the handler.
C3_OfflineRateNeverCallsRemote ==
    AmountsAreNumbers => \A i \in DOMAIN ev.runs :
        ev.runs[i].offline = "ok"
        => /\ ev.runs[i].api = 0
           /\ \A k \in DOMAIN ev.runs[i].out :
                 ev.runs[i].out[k].kind = "result" => ev.runs[i].out[k].rate = OfflineShown

\* C4: a conversion whose offline lookup failed makes exactly one remote call;
\* a remote rate is the rate shown; a remote failure leaves no result and the
\* error shown embeds the remote failure's message.
C4_OneRemoteCallAfterOfflineFailure ==
    \A i \in DOMAIN ev.runs :
        ev.runs[i].offline = "fail"
        => /\ ev.runs[i].api = 1
           /\ ev.runs[i].remote \in {"ok", "fail"}
           /\ (ev.runs[i].remote = "ok" /\ ~ev.runs[i].refused)
              => \E k \in DOMAIN ev.runs[i].out :
                    /\ ev.runs[i].out[k].kind = "result"
                    /\ ev.runs[i].out[k].rate = RemoteShown
           /\ ev.runs[i].remote = "fail"
              => /\ ~Sent(ev.runs[i], "result")
                 /\ ev.runs[i].cause # <<>>
                 /\ ~ev.runs[i].refused
                    => \E k \in DOMAIN ev.runs[i].out :
                          /\ ev.runs[i].out[k].kind \in {"error_pair", "callback_error"}
                          /\ Embeds(ev.runs[i].out[k].err, ev.runs[i].cause)

\* A custom pair the offline table does not know and the remote API fails for:
\* one remote call, the wrapped error shown, no result.
C4_Witness ==
    \E i \in DOMAIN ev.runs :
        /\ ev.runs[i].handler = "process_custom_pair"
        /\ ev.runs[i].offline = "fail" /\ ev.runs[i].remote = "fail"
        /\ ev.runs[i].api = 1
        /\ Sent(ev.runs[i], "error_pair")
        /\ ~Sent(ev.runs[i], "result")

\* C5: a conversion for which both rate sources failed shows an error and
\* leaves process_custom_pair pending for the user's next text, for a
\* quick-select button as for a custom pair text.
C5_ResolverFailureAsksForCustomPair ==
    AmountsAreNumbers => \A i \in DOMAIN ev.runs :
        ( /\ ev.runs[i].offline = "fail" /\ ev.runs[i].remote = "fail"
          /\ ~ev.runs[i].refused )
        => /\ \E k \in DOMAIN ev.runs[i].out :
                 ev.runs[i].out[k].kind \in {"error_pair", "callback_error"}
           /\ Pending("process_custom_pair")

\* C6: process_custom_pair and process_custom_graph_pair accept a text exactly
\* when it matches ^[A-Za-z]{3}/[A-Za-z]{3}$; any other text gets the
\* invalid-format re-prompt only, the handler registered again, no rate lookup
\* and no change of user_data.
C6_CustomPairAcceptedIffRegex ==
    (AmountsAreNumbers /\ TextEvent) =>
        \A i \in DOMAIN ev.runs :
            ( /\ ev.runs[i].handler \in {"process_custom_pair", "process_custom_graph_pair"}
              /\ ~ev.runs[i].refused )
            => IF MatchesPairRegex(chars(ev.text))
               THEN ~Sent(ev.runs[i], "invalid_format")
               ELSE /\ Kinds(ev.runs[i]) = <<"invalid_format">>
                    /\ ev.runs[i].reg = <<ev.runs[i].handler>>
                    /\ ev.runs[i].offline = "unused" /\ ev.runs[i].api = 0
                    /\ ev.runs[i].kept

\* C7: once an event has emitted a conversion result, no next-step handler is
\* pending: the user's next text goes to handle_all_messages.
C7_IdleAfterResult ==
    AmountsAreNumbers => \A i \in DOMAIN ev.runs : Sent(ev.runs[i], "result") => handlers = <<>>

\* C8: a conversion result emitted to a user after their /convert uses an amount
\* entered after that /convert: none is emitted while no amount has been
\* entered since.
C8_NoStaleAmountAfterConvert ==
    AmountsAreNumbers => \A i \in DOMAIN ev.runs :
        Sent(ev.runs[i], "result") => flow[ev.from_user] # "convert"

\* The pair a conversion event selects: the pair of the pressed quick-select
\* button, or the two codes of the typed text in upper case.
SelectedPairs ==
    IF ev.type = "callback"
    THEN { <<SubSeq(ALL_COMMON_PAIRS[j], 1, 3), SubSeq(ALL_COMMON_PAIRS[j], 5, 7)>> :
             j \in {j \in DOMAIN ALL_COMMON_PAIRS :
                      ev.data = S_convert \o lower(ALL_COMMON_PAIRS[j])} }
    ELSE IF ev.text = "eur/Usd" THEN { << <<"E","U","R">>, <<"U","S","D">> >> }
    ELSE IF ev.text = "12$/eur" THEN { << <<"1","2","$">>, <<"E","U","R">> >> }
    ELSE {}

\* C9: after /convert and a valid amount a, the result of a pair selection names
\* the selected base and target in upper case and shows a (2 decimals), the
\* resolved rate r (4 decimals) and a * r (2 decimals).
C9_ResultShowsAmountPairRateValue ==
    \A i \in DOMAIN ev.runs : \A k \in DOMAIN ev.runs[i].out :
        ( /\ ev.runs[i].out[k].kind = "result"
          /\ flow[ev.from_user] = "amount"
          /\ session_amount(user_data, ev.from_user).k = "num"
          /\ session_amount(user_data, ev.from_user).v > 0 )
        => /\ <<ev.runs[i].out[k].base, ev.runs[i].out[k].target>> \in SelectedPairs
           /\ ev.runs[i].out[k].amount =
                 Num(Nearest(session_amount(user_data, ev.from_user).v, 10))
           /\ ev.runs[i].out[k].rate =
                 (IF ev.runs[i].api = 0 THEN OfflineShown ELSE RemoteShown)
           /\ ev.runs[i].out[k].result =
                 Num(Nearest(session_amount(user_data, ev.from_user).v
                                * (IF ev.runs[i].api = 0 THEN 12346 ELSE 12514),
                             1000000))

\* Scenario A: /convert, "100", the USD/EUR button: 100.00 USD = 12.35 EUR at
\* 0.1235.
C9_Witness ==
    /\ ev.type = "callback"
    /\ ev.data = S_convert \o <<"u","s","d","/","e","u","r">>
    /\ flow[ev.from_user] = "amount"
    /\ session_amount(user_data, ev.from_user) = Num(100000)
    /\ \E i \in DOMAIN ev.runs : \E k \in DOMAIN ev.runs[i].out :
          /\ ev.runs[i].out[k].kind = "result"
          /\ ev.runs[i].out[k].base = <<"U","S","D">>
          /\ ev.runs[i].out[k].target = <<"E","U","R">>
          /\ ev.runs[i].out[k].amount = Num(10000)
          /\ ev.runs[i].out[k].rate = Num(1235)
          /\ ev.runs[i].out[k].result = Num(1235)

\* C10: a timeframe selection sends the "generating" notice first; a chart that
\* was built is sent and no error shown, a chart that failed has the notice
\* edited to the error and no image sent; the callback is acknowledged and no
\* next-step handler is left pending.
C10_TimeframeSelectionOutcome ==
    (AmountsAreNumbers /\ ev.type = "callback" /\ startswith(ev.data, S_timeframe)) =>
        \A i \in DOMAIN ev.runs :
            ~ev.runs[i].refused
            => /\ ev.runs[i].out # <<>> /\ ev.runs[i].out[1].kind = "generating"
               /\ ev.runs[i].chart \in {"ok", "fail"}
               /\ ev.runs[i].chart = "ok"
                  => /\ Sent(ev.runs[i], "graph")
                     /\ ~Sent(ev.runs[i], "graph_error")
                     /\ ~Sent(ev.runs[i], "callback_error")
               /\ ev.runs[i].chart = "fail"
                  => /\ Sent(ev.runs[i], "graph_error")
                     /\ ~Sent(ev.runs[i], "graph")
               /\ Sent(ev.runs[i], "answer")
               /\ handlers = <<>>

\* C11: no exception leaves a handler: whatever is raised in the handler of a
\* command, of a message taken by a step handler or of a callback is caught
\* there (stated for the runs whose transport calls all went through, where
\* the error message can reach the user).
C11_NoExceptionLeavesHandler ==
    AmountsAreNumbers =>
        \A i \in DOMAIN ev.runs :
            ~ev.runs[i].refused => ev.runs[i].exc = NoExc

\* call.data is one of the identifiers the callback handler knows.
HasPrefix(s, prefix) ==
    Len(s) >= Len(prefix) /\ \A i \in 1..Len(prefix) : s[i] = prefix[i]
KnownCallbackData(data) ==
    \/ HasPrefix(data, <<"c","o","n","v","e","r","t","_">>)
    \/ HasPrefix(data, <<"g","r","a","p","h","_">>)
    \/ HasPrefix(data, <<"t","i","m","e","f","r","a","m","e","_">>)
    \/ data \in {S_custom_pair, S_custom_graph_pair, S_show_graph_options}

\* C12: a callback whose data is none of the known identifiers is acknowledged
\* exactly once and nothing else is done: no message, no next-step handler
\* registered, user_data unchanged.
C12_UnknownCallbackOnlyAcknowledged ==
    (ev.type = "callback" /\ ~KnownCallbackData(ev.data)) =>
        \A i \in DOMAIN ev.runs :
            ~ev.runs[i].refused
            => /\ Kinds(ev.runs[i]) = <<"answer">>
               /\ ev.runs[i].out[1].call = "answer_callback_query"
               /\ ev.runs[i].reg = <<>>
               /\ ev.runs[i].kept /\ ev.runs[i].set = <<>>
               /\ ev.runs[i].exc = NoExc

\* The stale button pressed while a step handler is pending: acknowledged, the
\* handler still pending.
C12_Witness ==
    /\ ev.type = "callback" /\ ev.data = <<"c","a","n","c","e","l">>
    /\ Len(ev.runs) = 1
    /\ Kinds(ev.runs[1]) = <<"answer">>
    /\ handlers # <<>>
    /\ user_data # EmptyDict

\* s holds no lower-case letter.
NoLowerCase(s) == \A i \in 1..Len(s) : \A j \in 1..26 : s[i] # LowerAlpha[j]
StoredGraphPairs ==
    {user_data[u]["graph_pair"] : u \in {v \in DOMAIN user_data :
                                            "graph_pair" \in DOMAIN user_data[v]}}

\* C13: every stored graph_pair is in upper case, and so is every (base,
\* target) a rate source or the chart builder is called with, whatever the
\* case of the text or of the callback data: the pair typed as "eur/Usd" is
\* stored as EUR/USD, the button graph_usd/eur stores USD/EUR.
C13_PairsUpperCase ==
    /\ \A pair \in StoredGraphPairs : NoLowerCase(pair)
    /\ \A i \in DOMAIN ev.runs : \A k \in DOMAIN ev.runs[i].args :
          NoLowerCase(ev.runs[i].args[k].base) /\ NoLowerCase(ev.runs[i].args[k].target)
    /\ \A i \in DOMAIN ev.runs :
          ( /\ ev.runs[i].set = <<"graph_pair">>
            /\ ev.type = "message" /\ ev.text = "eur/Usd" )
          => user_data[ev.from_user]["graph_pair"] = <<"E","U","R","/","U","S","D">>
    /\ \A i \in DOMAIN ev.runs :
          ( /\ ev.runs[i].set = <<"graph_pair">>
            /\ ev.type = "callback"
            /\ ev.data = <<"g","r","a","p","h","_","u","s","d","/","e","u","r">> )
          => user_data[ev.from_user]["graph_pair"] = <<"U","S","D","/","E","U","R">>

\* The pair typed as "eur/Usd" was stored as EUR/USD and a button of its
\* timeframe keyboard charts EUR, USD.
C13_Witness ==
    /\ ev.type = "callback"
    /\ ev.data = <<"t","i","m","e","f","r","a","m","e","_","e","u","r","/","u","s","d","_","7">>
    /\ user_data[ev.from_user]["graph_pair"] = <<"E","U","R","/","U","S","D">>
    /\ \E i \in DOMAIN ev.runs : \E k \in DOMAIN ev.runs[i].args :
          /\ ev.runs[i].args[k].fn = "create_currency_graph"
          /\ ev.runs[i].args[k].base = <<"E","U","R">>
          /\ ev.runs[i].args[k].target = <<"U","S","D">>
          /\ Sent(ev.runs[i], "graph")

\* C14: an event of user u creates or changes only u's entry of user_data:
\* every other user's entry stays as it was (absent, or with the same amount
\* and graph_pair), and no entry is ever deleted.
C14_OnlyOwnSessionTouched ==
    [][ /\ DOMAIN user_data \subseteq DOMAIN user_data'
        /\ \A v \in Users :
              v # ev'.from_user
              => /\ v \in DOMAIN user_data' => v \in DOMAIN user_data
                 /\ v \in DOMAIN user_data => user_data'[v] = user_data[v] ]_vars

\* Both users have a session, with different contents, and the last event, of
\* user 2, wrote to user 2's session.
C14_Witness ==
    /\ members = Users
    /\ ev.from_user = 2
    /\ \E i \in DOMAIN ev.runs : ev.runs[i].set # <<>> /\ ~ev.runs[i].kept
    /\ DOMAIN user_data = Users
    /\ "amount" \in DOMAIN user_data[1]
    /\ user_data[1] # user_data[2]

\* The day number of a date of the series (days after 2023-12-30).
DayNumber(d) ==
    IF d = "2023-12-31" THEN 1
    ELSE IF d = "2024-01-09" THEN 10
    ELSE IF d = "2024-01-10" THEN 11
    ELSE 33
Graphs ==
    UNION { { ev.runs[i].out[k].figure : k \in DOMAIN ev.runs[i].out } :
            i \in DOMAIN ev.runs } \ {NoFigure}
GraphSent ==
    \E i \in DOMAIN ev.runs : \E k \in DOMAIN ev.runs[i].out :
        ev.runs[i].out[k].kind = "graph"
LastDay == CHOOSE i \in DOMAIN series :
               \A j \in DOMAIN series : DayNumber(series[j].date) <= DayNumber(series[i].date)

\* C15: whatever the order in which the time-series API gives the days, a
\* chart that is sent plots every day of the reply once, with its own rate, in
\* chronological order, and its 'Current' annotation is the rate (4 decimals)
\* of the chronologically last day.
C15_ChartInChronologicalOrder ==
    \A i \in DOMAIN ev.runs : \A k \in DOMAIN ev.runs[i].out :
        ev.runs[i].out[k].kind = "graph" =>
            LET g == ev.runs[i].out[k].figure
            IN  /\ Len(g.dates) = Len(series) /\ Len(g.rates) = Len(series)
                /\ \A a, b \in DOMAIN g.dates :
                       a < b => DayNumber(g.dates[a]) < DayNumber(g.dates[b])
                /\ \A a \in DOMAIN g.dates :
                       \E j \in DOMAIN series :
                           series[j].date = g.dates[a] /\ series[j].rate = g.rates[a]
                /\ g.labelled = (series # <<>>)
                /\ series # <<>> =>
                       g.current = Num(Nearest(series[LastDay].rate.v, 10))

\* A chart was sent for a reply of three days whose last day came first and
\* whose rate differs from the rate of the day the reply ends with.
C15_Witness ==
    /\ GraphSent
    /\ Len(series) = 3
    /\ LastDay = 1
    /\ series[1].rate # series[3].rate
    /\ \E g \in Graphs : g.labelled /\ g.dates[3] = series[1].date

\* C16: when one of the two secrets is not in the environment, the process
\* never polls and never handles an event: once started it has exited with a
\* non-zero status. Stated for the runs where the missing secret is the rate
\* service's API key, so that nothing rests on what the library does with a
\* missing token.
C16_BothSecretsRequired ==
    ("BOT_TOKEN" \in environ /\ environ # Secrets) =>
        process \in {"starting", "exit 1"} /\ ev = NoEvent

\* The same text but for the case of its letters.
EqualsIgnoringCase(a, b) ==
    /\ Len(a) = Len(b)
    /\ \A i \in 1..Len(a) :
          \/ a[i] = b[i]
          \/ \E j \in 1..26 : {a[i], b[i]} = {LowerAlpha[j], UpperAlpha[j]}
\* The pair in the callback data timeframe_<pair>_<days> of a button.
PressedPair(data) ==
    LET last == CHOOSE i \in DOMAIN data :
                    data[i] = "_" /\ \A j \in DOMAIN data : data[j] = "_" => j <= i
    IN  SubSeq(data, 11, last - 1)
TimeframePress == ev.type = "callback" /\ HasPrefix(ev.data, <<"t","i","m","e","f","r","a","m","e","_">>)
HasGraphPair(u) == u \in DOMAIN user_data /\ "graph_pair" \in DOMAIN user_data[u]
\* The pairs the Chart Builder was called for while the event was handled.
ChartedPairs ==
    UNION { { ev.runs[i].args[k].base \o <<"/">> \o ev.runs[i].args[k].target :
                k \in { n \in DOMAIN ev.runs[i].args :
                           ev.runs[i].args[n].fn = "create_currency_graph" } } :
            i \in DOMAIN ev.runs }

\* C17: the chart of a time period press is for the graph pair stored for the
\* user who pressed, when there is one, whatever pair the button's callback
\* data names; it is for the pair of the callback data only when that user has
\* no stored graph pair.
C17_StoredGraphPairOverridesButton ==
    TimeframePress =>
        \A p \in ChartedPairs :
            IF HasGraphPair(ev.from_user)
            THEN EqualsIgnoringCase(p, user_data[ev.from_user]["graph_pair"])
            ELSE EqualsIgnoringCase(p, PressedPair(ev.data))

\* A user with the stored pair EUR/USD pressed a time period button of the
\* USD/EUR keyboard and the chart was built for EUR/USD.
C17_Witness ==
    /\ TimeframePress
    /\ PressedPair(ev.data) = <<"u","s","d","/","e","u","r">>
    /\ HasGraphPair(ev.from_user)
    /\ user_data[ev.from_user]["graph_pair"] = <<"E","U","R","/","U","S","D">>
    /\ ChartedPairs = { <<"E","U","R","/","U","S","D">> }

\* A user with no stored graph pair pressed a time period button (one that
\* another member of the chat was sent) and the chart is for the button's pair.
C17_NoStoredPairReached ==
    /\ TimeframePress
    /\ ~HasGraphPair(ev.from_user)
    /\ ChartedPairs = { <<"U","S","D","/","E","U","R">> }

\* C18: the chart of a time period press is for the pair of the keyboard the
\* button belongs to, the pair in its callback data, also after the user chose
\* another graph pair in between.
C18_ChartForPressedKeyboard ==
    (AmountsAreNumbers /\ TimeframePress) =>
        \A p \in ChartedPairs : EqualsIgnoringCase(p, PressedPair(ev.data))

\* C19: every conversion result shows a positive amount that its user (who
\* typed the pair or pressed the button) entered earlier and that is stored
\* for that user; the default 0 of a session without amount is never shown,
\* whoever of the chat presses the button or answers the prompt.
C19_ResultUsesOwnEnteredAmount ==
    AmountsAreNumbers =>
        \A i \in DOMAIN ev.runs : \A k \in DOMAIN ev.runs[i].out :
            ev.runs[i].out[k].kind = "result" =>
                /\ ev.from_user \in DOMAIN user_data
                /\ "amount" \in DOMAIN user_data[ev.from_user]
                /\ ev.runs[i].out[k].amount.v > 0
                /\ ev.runs[i].out[k].amount =
                      Num(Nearest(user_data[ev.from_user]["amount"].v, 10))

\* C20: at most one step continuation is pending for the chat, and a message
\* is taken by at most one step handler.
C20_AtMostOneStepPending ==
    AmountsAreNumbers =>
        /\ Len(handlers) <= 1
        /\ ev.type = "message" => Len(ev.runs) <= 1
====
